---- MODULE Spec2Model ----
(***************************************************************************)
(* Model of the image compositor of the Pickabook personalization          *)
(* prototype: lib/image-compositor.ts (ImageCompositor.compositeOnTemplate *)
(* and downloadImage), with the template directory, the network and the    *)
(* image codec (sharp) as its environment.                                 *)
(*                                                                         *)
(* One call of compositeOnTemplate is a sequence of awaited steps; each    *)
(* step is one action.  A concurrent actor may change the template file    *)
(* between two steps (FsChange).                                           *)
(***************************************************************************)
EXTENDS Integers, Sequences, FiniteSets, TLC

VARIABLES
    options,        \* CompositeOptions of the call
    files,          \* template directory: file name -> status of that file
    net,            \* what the source URL answers
    pc,             \* position of the call in compositeOnTemplate
    templateName,   \* const templateName
    templateConfig, \* const templateConfig
    templatePath,   \* const templatePath (file name under public/templates)
    templateExists, \* let templateExists
    accessErr,      \* err caught by the inner try/catch of the existence check
    aiImageBuffer,  \* const aiImageBuffer
    resizedFace,    \* const resizedFace
    templateBuffer, \* const templateBuffer
    finalBuffer,    \* the buffer whose base64 text is put in the payload
    result,         \* the CompositeResult the call returned
    ops,            \* history: the steps performed, in order, each with its outcome
    fsChanges,      \* history: number of changes made by the concurrent actor
    calls,          \* concurrent calls: call id -> the locals of that call
    request,        \* POST: the request (form fields, or a body that is no form)
    token,          \* POST: is process.env.REPLICATE_API_TOKEN set
    nodeEnv,        \* POST: process.env.NODE_ENV
    aiOutput,       \* POST: what replicate.run answers
    postPc,         \* POST: position of the handler
    composeArg,     \* POST: the options the handler passed to compositeOnTemplate
    postOps,        \* POST history: the collaborators the handler called, in order
    response,       \* POST: the response of the handler
    dir,            \* getAvailableTemplates: the directory public/templates
    listed,         \* getAvailableTemplates: the array the call returned
    state,          \* page: the UploadState of the Home component
    fileInput,      \* page: the file held by the <input type="file">
    requests        \* page: request number -> the request sent to /api/personalize

vars == <<options, files, net, pc, templateName, templateConfig, templatePath,
          templateExists, accessErr, aiImageBuffer, resizedFace, templateBuffer,
          finalBuffer, result, ops, fsChanges, calls, request, token, nodeEnv,
          aiOutput, postPc, composeArg, postOps, response, dir, listed, state, fileInput,
          requests>>

\* The variables that the single call of compositeOnTemplate leaves alone
others == <<calls, request, token, nodeEnv, aiOutput, postPc, composeArg, postOps,
            response, dir, listed, state, fileInput, requests>>

\* The variables of the POST handler and those of getAvailableTemplates
post == <<request, token, nodeEnv, aiOutput, postPc, composeArg, postOps, response>>

lister == <<dir, listed>>

\* The variables of the upload page
page == <<state, fileInput, requests>>

(***************************************************************************)
(* Bounds                                                                  *)
(***************************************************************************)
MaxFsChanges == 1

(***************************************************************************)
(* JavaScript values                                                       *)
(***************************************************************************)
Undefined == [kind |-> "undefined"]

None == [kind |-> "none"]

NoResult == [pending |-> TRUE]

\* new Error(message)
Error(message) == [isError |-> TRUE, message |-> message]

\* JavaScript truthiness of an object-or-undefined value
Truthy(v) == v # Undefined

\* No request has been made of the POST handler
PostIdle ==
    /\ request = [parsed |-> FALSE]
    /\ token = FALSE
    /\ nodeEnv = "production"
    /\ aiOutput = [kind |-> "null"]
    /\ postPc = "idle"
    /\ composeArg = None
    /\ postOps = <<>>
    /\ response = NoResult

\* getAvailableTemplates has not been called
ListIdle ==
    /\ dir = [readable |-> FALSE]
    /\ listed = NoResult

\* The upload page is not open
PageIdle ==
    /\ state = [open |-> FALSE]
    /\ fileInput = [kind |-> "null"]
    /\ requests = <<>>

(***************************************************************************)
(* Buffers and the image codec                                             *)
(***************************************************************************)
B64Alphabet ==
    << "A","B","C","D","E","F","G","H","I","J","K","L","M",
       "N","O","P","Q","R","S","T","U","V","W","X","Y","Z",
       "a","b","c","d","e","f","g","h","i","j","k","l","m",
       "n","o","p","q","r","s","t","u","v","w","x","y","z",
       "0","1","2","3","4","5","6","7","8","9","+","/" >>

B64Char(v) == B64Alphabet[v + 1]

\* Buffer.toString('base64')
RECURSIVE Base64(_)
Base64(b) ==
    IF Len(b) = 0 THEN ""
    ELSE IF Len(b) = 1 THEN
        B64Char(b[1] \div 4) \o B64Char((b[1] % 4) * 16) \o "=="
    ELSE IF Len(b) = 2 THEN
        B64Char(b[1] \div 4) \o B64Char((b[1] % 4) * 16 + b[2] \div 16)
            \o B64Char((b[2] % 16) * 4) \o "="
    ELSE
        B64Char(b[1] \div 4) \o B64Char((b[1] % 4) * 16 + b[2] \div 16)
            \o B64Char((b[2] % 16) * 4 + b[3] \div 64) \o B64Char(b[3] % 64)
            \o Base64(SubSeq(b, 4, Len(b)))

Formats == {"jpeg", "png", "webp"}

\* The leading bytes by which a container format is recognised
Magic(format) ==
    CASE format = "png"  -> <<137, 80, 78, 71>>
      [] format = "jpeg" -> <<255, 216, 255, 224>>
      [] format = "webp" -> <<82, 73, 70, 70>>

HasPrefix(b, p) == Len(b) >= Len(p) /\ SubSeq(b, 1, Len(p)) = p

\* A 16 bit number as two bytes, big endian, and back
U16(n) == <<n \div 256, n % 256>>

ReadU16(b, i) == b[i] * 256 + b[i + 1]

\* A flat picture: `content` names the original picture, `crop` = <<x, y, w, h>>
\* is the region of the original that the width x height pixels show.
Picture(width, height, content) ==
    [ width |-> width, height |-> height, content |-> content,
      crop |-> <<0, 0, width, height>>, overlay |-> <<>> ]

\* The bytes of a flat picture: width, height, content, crop
LayerBytes(img) ==
    U16(img.width) \o U16(img.height) \o <<img.content>>
        \o U16(img.crop[1]) \o U16(img.crop[2]) \o U16(img.crop[3]) \o U16(img.crop[4])

LayerLen == Len(LayerBytes(Picture(1, 1, 0)))

ReadLayer(b, i) ==
    [ width   |-> ReadU16(b, i),
      height  |-> ReadU16(b, i + 2),
      content |-> b[i + 4],
      crop    |-> <<ReadU16(b, i + 5), ReadU16(b, i + 7),
                    ReadU16(b, i + 9), ReadU16(b, i + 11)>> ]

\* The format of an encoded image, "unsupported" when no codec recognises it
SniffFormat(b) ==
    IF \E f \in Formats :
          /\ HasPrefix(b, Magic(f))
          /\ Len(b) - Len(Magic(f)) \in {LayerLen, 2 * LayerLen + 4}
    THEN CHOOSE f \in Formats : HasPrefix(b, Magic(f))
    ELSE "unsupported"

\* Encoded image: magic, the picture and, when one picture was drawn onto it,
\* the place (left, top) and the picture drawn
EncodeImage(format, img) ==
    Magic(format) \o LayerBytes(img)
        \o (IF img.overlay = <<>> THEN <<>>
            ELSE U16(img.overlay[1].left) \o U16(img.overlay[1].top)
                    \o LayerBytes(img.overlay[1].image))

DecodeImage(b) ==
    LET base == ReadLayer(b, 5) IN
    [ width   |-> base.width,
      height  |-> base.height,
      content |-> base.content,
      crop    |-> base.crop,
      overlay |-> IF Len(b) = 4 + LayerLen THEN <<>>
                  ELSE << [ left  |-> ReadU16(b, 5 + LayerLen),
                            top   |-> ReadU16(b, 7 + LayerLen),
                            image |-> ReadLayer(b, 9 + LayerLen) ] >> ]

\* The pixel of a flat picture at (px, py): which pixel of which original
LayerPixel(img, px, py) ==
    << img.content,
       img.crop[1] + (px * img.crop[3]) \div img.width,
       img.crop[2] + (py * img.crop[4]) \div img.height >>

CorruptBytes == <<0, 1, 2>>

(***************************************************************************)
(* sharp                                                                   *)
(***************************************************************************)
Ok(value) == [ok |-> TRUE, value |-> value]

Throw(error) == [ok |-> FALSE, error |-> error]

\* blend: 'over' of an opaque pixel `over` on the pixel `base`
Blend(base, over) == over

\* The pixel of a decoded image at (px, py)
PixelAt(img, px, py) ==
    IF /\ img.overlay # <<>>
       /\ px >= img.overlay[1].left
       /\ px < img.overlay[1].left + img.overlay[1].image.width
       /\ py >= img.overlay[1].top
       /\ py < img.overlay[1].top + img.overlay[1].image.height
    THEN Blend(LayerPixel(img, px, py),
               LayerPixel(img.overlay[1].image,
                          px - img.overlay[1].left, py - img.overlay[1].top))
    ELSE LayerPixel(img, px, py)

\* Faulty variant: the overflow is cut off at the right and at the bottom only
\* (position 'left top').
CoverRegionLeftTop(sw, sh, tw, th) ==
    IF tw * sh >= th * sw
    THEN <<0, 0, sw, (th * sw) \div tw>>
    ELSE <<0, 0, (tw * sh) \div th, sh>>

\* The region <<x, y, w, h>> of a sw x sh picture that fit 'cover', position
\* 'center' keeps for a tw x th target: the picture is scaled by
\* max(tw/sw, th/sh) and the overflow is cut off evenly on both sides.
CoverRegion(sw, sh, tw, th) ==
    IF tw * sh >= th * sw
    THEN LET kept == (th * sw) \div tw IN <<0, (sh - kept) \div 2, sw, kept>>
    ELSE LET kept == (tw * sh) \div th IN <<(sw - kept) \div 2, 0, kept, sh>>

\* The size fit 'inside' gives a sw x sh picture for a tw x th target: the
\* picture is scaled by min(tw/sw, th/sh) and nothing is cut off.
InsideSize(sw, sh, tw, th) ==
    IF tw * sh <= th * sw
    THEN <<tw, (sh * tw) \div sw>>
    ELSE <<(sw * th) \div sh, th>>

\* sharp's resize of a decoded flat picture to width x height under `fit`
ResizePicture(img, width, height, fit) ==
    CASE fit = "cover" ->
            LET r == CoverRegion(img.width, img.height, width, height) IN
            [ width |-> width, height |-> height, content |-> img.content,
              crop |-> << img.crop[1] + (r[1] * img.crop[3]) \div img.width,
                          img.crop[2] + (r[2] * img.crop[4]) \div img.height,
                          (r[3] * img.crop[3]) \div img.width,
                          (r[4] * img.crop[4]) \div img.height >>,
              overlay |-> <<>> ]
      [] fit = "fill" ->
            [ width |-> width, height |-> height, content |-> img.content,
              crop |-> img.crop, overlay |-> <<>> ]
      [] fit = "inside" ->
            [ width   |-> InsideSize(img.width, img.height, width, height)[1],
              height  |-> InsideSize(img.width, img.height, width, height)[2],
              content |-> img.content, crop |-> img.crop, overlay |-> <<>> ]

\* sharp(input).resize(width, height, {fit, position: 'center'}).toBuffer():
\* no output format is set, so the output keeps the format of the input.
SharpResize(input, width, height, fit) ==
    IF SniffFormat(input) = "unsupported"
    THEN Throw(Error("Input buffer contains unsupported image format"))
    ELSE Ok(EncodeImage(SniffFormat(input),
                        ResizePicture(DecodeImage(input), width, height, fit)))

\* sharp(base).composite([{input: over, top, left, blend: 'over'}]).png()
\*   .toBuffer()
SharpComposite(base, over, top, left) ==
    IF SniffFormat(base) = "unsupported" \/ SniffFormat(over) = "unsupported"
    THEN Throw(Error("Input buffer contains unsupported image format"))
    ELSE IF \/ DecodeImage(over).width > DecodeImage(base).width
            \/ DecodeImage(over).height > DecodeImage(base).height
    THEN Throw(Error("Image to composite must have same dimensions or smaller"))
    ELSE Ok(EncodeImage("png",
                        [ DecodeImage(base) EXCEPT
                            !.overlay = << [ left  |-> left,
                                             top   |-> top,
                                             image |-> [ width   |-> DecodeImage(over).width,
                                                         height  |-> DecodeImage(over).height,
                                                         content |-> DecodeImage(over).content,
                                                         crop    |-> DecodeImage(over).crop ] ] >> ]))

(***************************************************************************)
(* The template registry                                                   *)
(***************************************************************************)
TEMPLATES ==
    [ template1 |-> [ name |-> "template1",
                      facePosition |-> [x |-> 300, y |-> 150,
                                        width |-> 400, height |-> 400] ],
      template2 |-> [ name |-> "template2",
                      facePosition |-> [x |-> 250, y |-> 100,
                                        width |-> 500, height |-> 500] ] ]

\* Property names every object literal inherits from Object.prototype
ObjectPrototypeKeys ==
    {"constructor", "toString", "toLocaleString", "valueOf", "hasOwnProperty",
     "isPrototypeOf", "propertyIsEnumerable", "__proto__", "__defineGetter__",
     "__defineSetter__", "__lookupGetter__", "__lookupSetter__"}

\* TEMPLATES[name]: an own entry, else an inherited property, else undefined
TemplatesGet(name) ==
    IF name \in DOMAIN TEMPLATES THEN TEMPLATES[name]
    ELSE IF name \in ObjectPrototypeKeys THEN [kind |-> "inherited", key |-> name]
    ELSE Undefined

\* templateConfig.facePosition
FacePositionOf(config) ==
    IF "facePosition" \in DOMAIN config THEN config.facePosition ELSE Undefined

(***************************************************************************)
(* Inputs of a call and its environment                                    *)
(***************************************************************************)
Url == "https://replicate.delivery/out.png"

NameInputs ==
    {"", "template1", "template2", "constructor", "toString", "does-not-exist"}

OptionsSet ==
    {[aiGeneratedImageUrl |-> Url]}
        \cup {[aiGeneratedImageUrl |-> Url, templateName |-> n] : n \in NameInputs}

\* Faulty variant: options.templateName ?? 'template1', which keeps ''.
DefaultedNameNullish(opts) ==
    IF "templateName" \in DOMAIN opts
    THEN opts.templateName
    ELSE "template1"

\* options.templateName || 'template1'
DefaultedName(opts) ==
    IF "templateName" \in DOMAIN opts /\ opts.templateName # ""
    THEN opts.templateName
    ELSE "template1"

\* File name of path.join(process.cwd(), 'public', 'templates', name + '.png')
TemplateFile(name) == name \o ".png"

FileNames == {TemplateFile(n) : n \in NameInputs \ {""}}

\* good: a readable 1024x1024 PNG;  large: a readable 2048x1536 PNG;
\* small: a readable 300x300 PNG;
\* corrupt: readable bytes no codec decodes;  unreadable: exists, cannot be
\* opened;  absent: no such file;  dirDenied: the directory cannot be
\* searched;  ioError: the device fails.
FileStatus ==
    {"good", "large", "small", "corrupt", "unreadable", "absent", "dirDenied",
     "ioError"}

FsError(code, syscall, file) ==
    Error(code \o ", " \o syscall \o " '" \o file \o "'")

\* fs.access(templatePath), mode F_OK
FsAccess(file) ==
    CASE files[file] = "absent"    -> Throw(FsError("ENOENT: no such file or directory", "access", file))
      [] files[file] = "dirDenied" -> Throw(FsError("EACCES: permission denied", "access", file))
      [] files[file] = "ioError"   -> Throw(FsError("EIO: i/o error", "access", file))
      [] OTHER                     -> Ok(None)

\* fs.readFile(templatePath); the error of a failed open names the path, the
\* error of a failed read does not
FsReadFile(file) ==
    CASE files[file] = "good"       -> Ok(EncodeImage("png", Picture(1024, 1024, 8)))
      [] files[file] = "large"      -> Ok(EncodeImage("png", Picture(2048, 1536, 10)))
      [] files[file] = "small"      -> Ok(EncodeImage("png", Picture(300, 300, 9)))
      [] files[file] = "corrupt"    -> Ok(CorruptBytes)
      [] files[file] = "absent"     -> Throw(FsError("ENOENT: no such file or directory", "open", file))
      [] files[file] = "ioError"    -> Throw(Error("EIO: i/o error, read"))
      [] OTHER                      -> Throw(FsError("EACCES: permission denied", "open", file))

SourceImages ==
    { EncodeImage("jpeg", Picture(2000, 1000, 1)),
      EncodeImage("png",  Picture(512, 512, 2)),
      EncodeImage("webp", Picture(800, 1200, 3)),
      EncodeImage("jpeg", Picture(200, 300, 4)) }

\* What the source URL answers: a 2xx response with a body, a non-2xx
\* response, a rejected fetch, or a body whose transfer fails.
NetOutcomes ==
    {[kind |-> "ok", body |-> b] : b \in SourceImages \cup {CorruptBytes}}
        \cup {[kind |-> "status", statusText |-> t] :
                 t \in {"Not Found", "Internal Server Error"}}
        \cup {[kind |-> "reject", message |-> "fetch failed"]}
        \cup {[kind |-> "bodyError", message |-> "terminated"]}

\* Faulty variant: the response's ok flag is not looked at, the body of an error
\* response is returned as if it were the image.
DownloadImageIgnoresStatus(url) ==
    CASE net.kind = "reject"    -> Throw(Error(net.message))
      [] net.kind = "status"    -> Ok(CorruptBytes)
      [] net.kind = "bodyError" -> Throw(Error(net.message))
      [] OTHER                  -> Ok(net.body)

\* ImageCompositor.downloadImage(url)
DownloadImage(url) ==
    CASE net.kind = "reject"    -> Throw(Error(net.message))
      [] net.kind = "status"    -> Throw(Error("Failed to download image: " \o net.statusText))
      [] net.kind = "bodyError" -> Throw(Error(net.message))
      [] OTHER                  -> Ok(net.body)

\* await fetch(url) resolved and downloadImage goes on to read the body: it
\* has not thrown before response.arrayBuffer()
ResponseArrives(url) == DownloadImage(url).ok \/ net.kind = "bodyError"

(***************************************************************************)
(* compositeOnTemplate                                                     *)
(***************************************************************************)
Prefix == "data:image/png;base64,"

Log(entry) == ops' = Append(ops, entry)

\* catch (error) { return { base64Image: '', error: ... } }
ErrorMessage(error) ==
    IF error.isError THEN error.message ELSE "Unknown error occurred"

\* Faulty variant: the outer catch rethrows, the exception leaves the call.
CatchRethrows(error) ==
    /\ pc' = "escaped"
    /\ result' = result
    /\ finalBuffer' = finalBuffer

\* Faulty variant: the failure result carries what had been built so far.
CatchKeepsPayload(error) ==
    /\ pc' = "done"
    /\ result' = [base64Image |-> Prefix \o Base64(resizedFace),
                  error |-> ErrorMessage(error)]
    /\ finalBuffer' = finalBuffer

Catch(error) ==
    /\ pc' = "done"
    /\ result' = [base64Image |-> "", error |-> ErrorMessage(error)]
    /\ finalBuffer' = finalBuffer

\* Faulty variant: the data URI names the MIME type of a JPEG.
ReturnJpegPrefix(buffer) ==
    /\ pc' = "done"
    /\ result' = [base64Image |-> "data:image/jpeg;base64," \o Base64(buffer)]
    /\ finalBuffer' = buffer

\* const base64Image = buffer.toString('base64');
\* return { base64Image: `data:image/png;base64,${base64Image}` }
Return(buffer) ==
    /\ pc' = "done"
    /\ result' = [base64Image |-> Prefix \o Base64(buffer)]
    /\ finalBuffer' = buffer

Init ==
    /\ options \in OptionsSet
    /\ \E status \in FileStatus :
          files = [f \in FileNames |->
                      IF f = TemplateFile(DefaultedName(options))
                      THEN status ELSE "absent"]
    /\ net \in NetOutcomes
    /\ pc = "start"
    /\ templateName = ""
    /\ templateConfig = Undefined
    /\ templatePath = ""
    /\ templateExists = FALSE
    /\ accessErr = None
    /\ aiImageBuffer = <<>>
    /\ resizedFace = <<>>
    /\ templateBuffer = <<>>
    /\ finalBuffer = <<>>
    /\ result = NoResult
    /\ ops = <<>>
    /\ fsChanges = 0
    /\ calls = <<>>
    /\ PostIdle
    /\ ListIdle
    /\ PageIdle

\* Default the name, look it up in TEMPLATES, build the template path
ResolveTemplate ==
    /\ pc = "start"
    /\ templateName' = DefaultedName(options)
    /\ templateConfig' = TemplatesGet(templateName')
    /\ Log([op |-> "lookup", name |-> templateName', ok |-> Truthy(templateConfig')])
    /\ IF ~Truthy(templateConfig')
       THEN /\ Catch(Error("Template " \o templateName' \o " not found"))
            /\ templatePath' = templatePath
       ELSE /\ templatePath' = TemplateFile(templateName')
            /\ pc' = "access"
            /\ UNCHANGED <<result, finalBuffer>>
    /\ UNCHANGED <<options, files, net, templateExists, accessErr, aiImageBuffer,
                   resizedFace, templateBuffer, fsChanges>>
    /\ UNCHANGED others

\* Faulty variant: no inner try/catch, a failed existence check reaches the outer
\* catch.
CheckTemplateExistsNoCatch ==
    /\ pc = "access"
    /\ Log([op |-> "access", path |-> templatePath, status |-> files[templatePath],
             ok |-> FsAccess(templatePath).ok])
    /\ IF FsAccess(templatePath).ok
       THEN /\ templateExists' = TRUE
            /\ accessErr' = accessErr
            /\ pc' = "fetch"
            /\ UNCHANGED <<result, finalBuffer>>
       ELSE /\ templateExists' = FALSE
            /\ accessErr' = FsAccess(templatePath).error
            /\ Catch(FsAccess(templatePath).error)
    /\ UNCHANGED <<options, files, net, templateName, templateConfig, templatePath,
                   aiImageBuffer, resizedFace, templateBuffer, fsChanges>>
    /\ UNCHANGED others

\* Faulty variant: the inner catch swallows only "no such file", any other failure
\* of the existence check reaches the outer catch.
CheckTemplateExistsOnlyEnoent ==
    /\ pc = "access"
    /\ Log([op |-> "access", path |-> templatePath, status |-> files[templatePath],
             ok |-> FsAccess(templatePath).ok])
    /\ IF FsAccess(templatePath).ok
       THEN /\ templateExists' = TRUE
            /\ accessErr' = accessErr
            /\ pc' = "fetch"
            /\ UNCHANGED <<result, finalBuffer>>
       ELSE /\ templateExists' = FALSE
            /\ accessErr' = FsAccess(templatePath).error
            /\ IF files[templatePath] = "absent"
               THEN /\ pc' = "fetch"
                    /\ UNCHANGED <<result, finalBuffer>>
               ELSE Catch(FsAccess(templatePath).error)
    /\ UNCHANGED <<options, files, net, templateName, templateConfig, templatePath,
                   aiImageBuffer, resizedFace, templateBuffer, fsChanges>>
    /\ UNCHANGED others

\* try { await fs.access(templatePath); templateExists = true } catch (err) {}
CheckTemplateExists ==
    /\ pc = "access"
    /\ Log([op |-> "access", path |-> templatePath, status |-> files[templatePath],
             ok |-> FsAccess(templatePath).ok])
    /\ IF FsAccess(templatePath).ok
       THEN /\ templateExists' = TRUE
            /\ accessErr' = accessErr
       ELSE /\ templateExists' = FALSE
            /\ accessErr' = FsAccess(templatePath).error
    /\ pc' = "fetch"
    /\ UNCHANGED <<options, files, net, templateName, templateConfig, templatePath,
                   aiImageBuffer, resizedFace, templateBuffer, finalBuffer, result,
                   fsChanges>>
    /\ UNCHANGED others

\* Faulty variant: a failed download is tried once more before it is given up.
DownloadWithRetry ==
    /\ pc = "fetch"
    /\ aiImageBuffer' = aiImageBuffer
    /\ IF ResponseArrives(options.aiGeneratedImageUrl)
       THEN /\ pc' = "body"
            /\ UNCHANGED <<ops, result, finalBuffer>>
       ELSE /\ Log([op |-> "fetch", url |-> options.aiGeneratedImageUrl, ok |-> FALSE])
            /\ IF Len(ops) < 3
               THEN UNCHANGED <<pc, result, finalBuffer>>
               ELSE Catch(DownloadImage(options.aiGeneratedImageUrl).error)
    /\ UNCHANGED <<options, files, net, templateName, templateConfig, templatePath,
                   templateExists, accessErr, resizedFace, templateBuffer, fsChanges>>
    /\ UNCHANGED others

\* downloadImage up to its second await: await fetch(url) has settled; with a
\* response that is ok the call waits for response.arrayBuffer(), otherwise
\* downloadImage throws and the call returns its failure.  The step is
\* logged when downloadImage has returned or thrown.
Download ==
    /\ pc = "fetch"
    /\ aiImageBuffer' = aiImageBuffer
    /\ IF ResponseArrives(options.aiGeneratedImageUrl)
       THEN /\ pc' = "body"
            /\ UNCHANGED <<ops, result, finalBuffer>>
       ELSE /\ Log([op |-> "fetch", url |-> options.aiGeneratedImageUrl, ok |-> FALSE])
            /\ Catch(DownloadImage(options.aiGeneratedImageUrl).error)
    /\ UNCHANGED <<options, files, net, templateName, templateConfig, templatePath,
                   templateExists, accessErr, resizedFace, templateBuffer, fsChanges>>
    /\ UNCHANGED others

\* downloadImage from its second await: await response.arrayBuffer() has
\* settled, with the bytes or with the error of the transfer
ReceiveBody ==
    /\ pc = "body"
    /\ Log([op |-> "fetch", url |-> options.aiGeneratedImageUrl,
             ok |-> DownloadImage(options.aiGeneratedImageUrl).ok])
    /\ IF DownloadImage(options.aiGeneratedImageUrl).ok
       THEN /\ aiImageBuffer' = DownloadImage(options.aiGeneratedImageUrl).value
            /\ pc' = "resize"
            /\ UNCHANGED <<result, finalBuffer>>
       ELSE /\ Catch(DownloadImage(options.aiGeneratedImageUrl).error)
            /\ aiImageBuffer' = aiImageBuffer
    /\ UNCHANGED <<options, files, net, templateName, templateConfig, templatePath,
                   templateExists, accessErr, resizedFace, templateBuffer, fsChanges>>
    /\ UNCHANGED others

\* Faulty variant: the fallback resize only fits the picture inside the square
\* (fit: 'inside').
FallbackResizeInside ==
    /\ pc = "resize"
    /\ ~templateExists
    /\ Log([op |-> "resize", width |-> 1024, height |-> 1024,
             ok |-> SharpResize(aiImageBuffer, 1024, 1024, "inside").ok])
    /\ IF SharpResize(aiImageBuffer, 1024, 1024, "inside").ok
       THEN Return(SharpResize(aiImageBuffer, 1024, 1024, "inside").value)
       ELSE Catch(SharpResize(aiImageBuffer, 1024, 1024, "inside").error)
    /\ UNCHANGED <<options, files, net, templateName, templateConfig, templatePath,
                   templateExists, accessErr, aiImageBuffer, resizedFace,
                   templateBuffer, fsChanges>>
    /\ UNCHANGED others

\* if (!templateExists) { resize to 1024 x 1024, return the payload }
FallbackResize ==
    /\ pc = "resize"
    /\ ~templateExists
    /\ Log([op |-> "resize", width |-> 1024, height |-> 1024,
             ok |-> SharpResize(aiImageBuffer, 1024, 1024, "cover").ok])
    /\ IF SharpResize(aiImageBuffer, 1024, 1024, "cover").ok
       THEN Return(SharpResize(aiImageBuffer, 1024, 1024, "cover").value)
       ELSE Catch(SharpResize(aiImageBuffer, 1024, 1024, "cover").error)
    /\ UNCHANGED <<options, files, net, templateName, templateConfig, templatePath,
                   templateExists, accessErr, aiImageBuffer, resizedFace,
                   templateBuffer, fsChanges>>
    /\ UNCHANGED others

\* Faulty variant: the face is resized to the canonical square although the
\* template exists.
FaceResizeCanonical ==
    /\ pc = "resize"
    /\ templateExists
    /\ LET face == FacePositionOf(templateConfig) IN
       IF face = Undefined
       THEN /\ Catch(Error("Cannot destructure property 'x' of 'templateConfig.facePosition' as it is undefined."))
            /\ Log([op |-> "destructure", ok |-> FALSE])
            /\ resizedFace' = resizedFace
       ELSE /\ Log([op |-> "resize", width |-> 1024, height |-> 1024,
                     ok |-> SharpResize(aiImageBuffer, 1024, 1024, "cover").ok])
            /\ IF SharpResize(aiImageBuffer, 1024, 1024, "cover").ok
               THEN /\ resizedFace' = SharpResize(aiImageBuffer, 1024, 1024, "cover").value
                    /\ pc' = "read"
                    /\ UNCHANGED <<result, finalBuffer>>
               ELSE /\ Catch(SharpResize(aiImageBuffer, 1024, 1024, "cover").error)
                    /\ resizedFace' = resizedFace
    /\ UNCHANGED <<options, files, net, templateName, templateConfig, templatePath,
                   templateExists, accessErr, aiImageBuffer, templateBuffer, fsChanges>>
    /\ UNCHANGED others

\* const { x, y, width, height } = templateConfig.facePosition;
\* const resizedFace = await sharp(aiImageBuffer).resize(width, height, ...)
FaceResize ==
    /\ pc = "resize"
    /\ templateExists
    /\ LET face == FacePositionOf(templateConfig) IN
       IF face = Undefined
       THEN /\ Catch(Error("Cannot destructure property 'x' of 'templateConfig.facePosition' as it is undefined."))
            /\ Log([op |-> "destructure", ok |-> FALSE])
            /\ resizedFace' = resizedFace
       ELSE /\ Log([op |-> "resize", width |-> face.width, height |-> face.height,
                     ok |-> SharpResize(aiImageBuffer, face.width, face.height, "cover").ok])
            /\ IF SharpResize(aiImageBuffer, face.width, face.height, "cover").ok
               THEN /\ resizedFace' = SharpResize(aiImageBuffer, face.width, face.height, "cover").value
                    /\ pc' = "read"
                    /\ UNCHANGED <<result, finalBuffer>>
               ELSE /\ Catch(SharpResize(aiImageBuffer, face.width, face.height, "cover").error)
                    /\ resizedFace' = resizedFace
    /\ UNCHANGED <<options, files, net, templateName, templateConfig, templatePath,
                   templateExists, accessErr, aiImageBuffer, templateBuffer, fsChanges>>
    /\ UNCHANGED others

\* const templateBuffer = await fs.readFile(templatePath)
ReadTemplate ==
    /\ pc = "read"
    /\ Log([op |-> "readFile", path |-> templatePath, status |-> files[templatePath],
             ok |-> FsReadFile(templatePath).ok])
    /\ IF FsReadFile(templatePath).ok
       THEN /\ templateBuffer' = FsReadFile(templatePath).value
            /\ pc' = "composite"
            /\ UNCHANGED <<result, finalBuffer>>
       ELSE /\ Catch(FsReadFile(templatePath).error)
            /\ templateBuffer' = templateBuffer
    /\ UNCHANGED <<options, files, net, templateName, templateConfig, templatePath,
                   templateExists, accessErr, aiImageBuffer, resizedFace, fsChanges>>
    /\ UNCHANGED others

\* Faulty variant: top and left are given the wrong way round.
CompositeSwapped ==
    /\ pc = "composite"
    /\ LET face == FacePositionOf(templateConfig)
           out  == SharpComposite(templateBuffer, resizedFace, face.x, face.y)
       IN
       /\ Log([op |-> "composite", top |-> face.x, left |-> face.y, ok |-> out.ok])
       /\ IF out.ok THEN Return(out.value) ELSE Catch(out.error)
    /\ UNCHANGED <<options, files, net, templateName, templateConfig, templatePath,
                   templateExists, accessErr, aiImageBuffer, resizedFace,
                   templateBuffer, fsChanges>>
    /\ UNCHANGED others

\* const compositedImage = await sharp(templateBuffer).composite([...]).png()
\*   .toBuffer(); return the payload
Composite ==
    /\ pc = "composite"
    /\ LET face == FacePositionOf(templateConfig)
           out  == SharpComposite(templateBuffer, resizedFace, face.y, face.x)
       IN
       /\ Log([op |-> "composite", top |-> face.y, left |-> face.x, ok |-> out.ok])
       /\ IF out.ok THEN Return(out.value) ELSE Catch(out.error)
    /\ UNCHANGED <<options, files, net, templateName, templateConfig, templatePath,
                   templateExists, accessErr, aiImageBuffer, resizedFace,
                   templateBuffer, fsChanges>>
    /\ UNCHANGED others

\* Another process creates, replaces, removes or re-protects the template
\* file while the call is suspended at an await.
FsChange ==
    /\ pc \in {"access", "fetch", "body", "resize", "read", "composite"}
    /\ fsChanges < MaxFsChanges
    /\ \E status \in FileStatus \ {files[templatePath]} :
          files' = [files EXCEPT ![templatePath] = status]
    /\ fsChanges' = fsChanges + 1
    /\ UNCHANGED <<options, net, pc, templateName, templateConfig, templatePath,
                   templateExists, accessErr, aiImageBuffer, resizedFace,
                   templateBuffer, finalBuffer, result, ops>>
    /\ UNCHANGED others

\* The positions of a call that is running or has returned: an exception
\* that left the call would put it at none of them
CallPositions ==
    {"start", "access", "fetch", "body", "resize", "read", "composite", "done"}

\* The steps of the call
CallStep ==
    \/ ResolveTemplate
    \/ CheckTemplateExists
    \/ Download
    \/ ReceiveBody
    \/ FallbackResize
    \/ FaceResize
    \/ ReadTemplate
    \/ Composite

Next == CallStep \/ FsChange

Spec == Init /\ [][Next]_vars

(***************************************************************************)
(* compositeOnTemplate as a function of the locals of a call               *)
(***************************************************************************)
\* The locals of a call that has just been entered with `opts`
InitLocal(opts) ==
    [ options        |-> opts,
      pc             |-> "start",
      templateName   |-> "",
      templateConfig |-> Undefined,
      templatePath   |-> "",
      templateExists |-> FALSE,
      accessErr      |-> None,
      aiImageBuffer  |-> <<>>,
      resizedFace    |-> <<>>,
      templateBuffer |-> <<>>,
      finalBuffer    |-> <<>>,
      result         |-> NoResult,
      ops            |-> <<>> ]

Logged(l, entry) == [l EXCEPT !.ops = Append(@, entry)]

\* catch (error) { return { base64Image: '', error: ... } }
Caught(l, error) ==
    [l EXCEPT !.pc = "done",
              !.result = [base64Image |-> "", error |-> ErrorMessage(error)]]

\* return { base64Image: `data:image/png;base64,${base64Image}` }
Returned(l, buffer) ==
    [l EXCEPT !.pc = "done",
              !.result = [base64Image |-> Prefix \o Base64(buffer)],
              !.finalBuffer = buffer]

\* The locals after the next awaited step of the call with locals l
CallNext(l) ==
    CASE l.pc = "start" ->
            LET name == DefaultedName(l.options)
                cfg  == TemplatesGet(name)
                l1   == Logged([l EXCEPT !.templateName = name, !.templateConfig = cfg],
                               [op |-> "lookup", name |-> name, ok |-> Truthy(cfg)])
            IN  IF ~Truthy(cfg)
                THEN Caught(l1, Error("Template " \o name \o " not found"))
                ELSE [l1 EXCEPT !.templatePath = TemplateFile(name), !.pc = "access"]
      [] l.pc = "access" ->
            LET got == FsAccess(l.templatePath)
                l1  == Logged(l, [op |-> "access", path |-> l.templatePath,
                                  status |-> files[l.templatePath], ok |-> got.ok])
            IN  IF got.ok
                THEN [l1 EXCEPT !.templateExists = TRUE, !.pc = "fetch"]
                ELSE [l1 EXCEPT !.templateExists = FALSE, !.accessErr = got.error,
                                !.pc = "fetch"]
      [] l.pc = "fetch" ->
            IF ResponseArrives(l.options.aiGeneratedImageUrl)
            THEN [l EXCEPT !.pc = "body"]
            ELSE Caught(Logged(l, [op |-> "fetch", url |-> l.options.aiGeneratedImageUrl,
                                   ok |-> FALSE]),
                        DownloadImage(l.options.aiGeneratedImageUrl).error)
      [] l.pc = "body" ->
            LET got == DownloadImage(l.options.aiGeneratedImageUrl)
                l1  == Logged(l, [op |-> "fetch", url |-> l.options.aiGeneratedImageUrl,
                                  ok |-> got.ok])
            IN  IF got.ok
                THEN [l1 EXCEPT !.aiImageBuffer = got.value, !.pc = "resize"]
                ELSE Caught(l1, got.error)
      [] l.pc = "resize" /\ ~l.templateExists ->
            LET got == SharpResize(l.aiImageBuffer, 1024, 1024, "cover")
                l1  == Logged(l, [op |-> "resize", width |-> 1024, height |-> 1024,
                                  ok |-> got.ok])
            IN  IF got.ok THEN Returned(l1, got.value) ELSE Caught(l1, got.error)
      [] l.pc = "resize" /\ l.templateExists ->
            LET face == FacePositionOf(l.templateConfig) IN
            IF face = Undefined
            THEN Caught(Logged(l, [op |-> "destructure", ok |-> FALSE]),
                        Error("Cannot destructure property 'x' of 'templateConfig.facePosition' as it is undefined."))
            ELSE LET got == SharpResize(l.aiImageBuffer, face.width, face.height, "cover")
                     l1  == Logged(l, [op |-> "resize", width |-> face.width,
                                       height |-> face.height, ok |-> got.ok])
                 IN  IF got.ok
                     THEN [l1 EXCEPT !.resizedFace = got.value, !.pc = "read"]
                     ELSE Caught(l1, got.error)
      [] l.pc = "read" ->
            LET got == FsReadFile(l.templatePath)
                l1  == Logged(l, [op |-> "readFile", path |-> l.templatePath,
                                  status |-> files[l.templatePath], ok |-> got.ok])
            IN  IF got.ok
                THEN [l1 EXCEPT !.templateBuffer = got.value, !.pc = "composite"]
                ELSE Caught(l1, got.error)
      [] l.pc = "composite" ->
            LET face == FacePositionOf(l.templateConfig)
                got  == SharpComposite(l.templateBuffer, l.resizedFace, face.y, face.x)
                l1   == Logged(l, [op |-> "composite", top |-> face.y, left |-> face.x,
                                   ok |-> got.ok])
            IN  IF got.ok THEN Returned(l1, got.value) ELSE Caught(l1, got.error)
      [] OTHER -> l

\* The locals of a call run from l to its return with nothing else happening
RECURSIVE RunFrom(_)
RunFrom(l) == IF l.pc = "done" THEN l ELSE RunFrom(CallNext(l))

\* await compositor.compositeOnTemplate(opts), run alone
CompositeOnTemplate(opts) == RunFrom(InitLocal(opts)).result

\* The locals of the single call, as one record
LocalOf ==
    [ options        |-> options,
      pc             |-> pc,
      templateName   |-> templateName,
      templateConfig |-> templateConfig,
      templatePath   |-> templatePath,
      templateExists |-> templateExists,
      accessErr      |-> accessErr,
      aiImageBuffer  |-> aiImageBuffer,
      resizedFace    |-> resizedFace,
      templateBuffer |-> templateBuffer,
      finalBuffer    |-> finalBuffer,
      result         |-> result,
      ops            |-> ops ]

\* Every step of the single call is the step CallNext computes
StepsAgree == [][CallStep => LocalOf' = CallNext(LocalOf)]_vars

(***************************************************************************)
(* Vocabulary of the properties                                            *)
(***************************************************************************)
Done == pc = "done"

\* A success result: a non-empty payload and no error
IsSuccess(r) == DOMAIN r = {"base64Image"} /\ r.base64Image # ""

\* A failure result: an empty payload and an error message
IsFailure(r) == DOMAIN r = {"base64Image", "error"} /\ r.base64Image = ""

\* The keys of the registry
RegisteredKeys == {"template1", "template2"}

Steps(op) == {i \in DOMAIN ops : ops[i].op = op}

Performed(op) == Steps(op) # {}

Failed(op) == \E i \in Steps(op) : ~ops[i].ok

\* The caller named a template (the name is neither absent nor empty)
NamedTemplate == "templateName" \in DOMAIN options /\ options.templateName # ""

\* The existence check found no file <templateName>.png
FileWasMissing == \E i \in Steps("access") : ops[i].status = "absent"

\* The source URL answers an image the codec decodes
SourceDecodes == net.kind = "ok" /\ SniffFormat(net.body) # "unsupported"

(***************************************************************************)
(* C1: for every non-empty templateName that is not one of the registered  *)
(* keys template1 and template2 (names such as constructor and toString    *)
(* included) the call returns a failure result with a non-empty error      *)
(* message, whatever the template directory holds and whatever the source  *)
(* URL answers; it never returns a payload for such a name.                *)
(***************************************************************************)
C1_UnknownTemplateIsHardError ==
    (Done /\ NamedTemplate /\ options.templateName \notin RegisteredKeys)
        => (IsFailure(result) /\ result.error # "")

(***************************************************************************)
(* C2: when templateName is a registered key, the file <templateName>.png  *)
(* does not exist and the download and the resize succeed, the call        *)
(* returns a success result through the fallback path: the template file   *)
(* is never read, no overlay is performed, and no error is reported.       *)
(***************************************************************************)
C2_MissingAssetFallsBack ==
    (Done /\ templateName \in RegisteredKeys /\ FileWasMissing /\ SourceDecodes)
        => /\ IsSuccess(result)
           /\ ~Performed("readFile")
           /\ ~Performed("composite")
           /\ \E i \in Steps("resize") : ops[i].width = 1024 /\ ops[i].height = 1024

C2_Witness ==
    /\ Done
    /\ templateName \in RegisteredKeys
    /\ FileWasMissing
    /\ SourceDecodes
    /\ IsSuccess(result)

(***************************************************************************)
(* C3 as stated: the call always returns a CompositeResult, and whenever   *)
(* any step (registry lookup, existence check, fetch, resize, template     *)
(* read, composite) throws, the result has an empty base64Image and an     *)
(* error message.                                                          *)
(***************************************************************************)
C3_AnyThrowYieldsFailure ==
    /\ pc \in CallPositions
    /\ (Done /\ \E i \in DOMAIN ops : ~ops[i].ok) => IsFailure(result)

(***************************************************************************)
(* C3 amended: no exception escapes the call - it is always at one of its  *)
(* steps or has returned, and once it has returned the result is a         *)
(* CompositeResult - and whenever a step other than the existence check    *)
(* throws (registry lookup, fetch, resize, template read, composite), the  *)
(* result has an empty base64Image and an error message.  A throwing       *)
(* existence check alone selects the fallback path and is no failure.      *)
(***************************************************************************)
C3_ThrowOutsideExistenceCheckYieldsFailure ==
    /\ pc \in CallPositions
    /\ Done => "base64Image" \in DOMAIN result
    /\ (Done /\ \E i \in DOMAIN ops : ops[i].op # "access" /\ ~ops[i].ok)
           => IsFailure(result)

C3_Witness ==
    /\ Done
    /\ Failed("composite")
    /\ IsFailure(result)

(***************************************************************************)
(* C4: every result the call returns is either a success (non-empty        *)
(* base64Image, no error) or a failure (empty base64Image, an error): a    *)
(* payload is never returned together with an error, and nothing built     *)
(* before a failure is returned with it.                                   *)
(***************************************************************************)
C4_ResultIsSuccessXorFailure ==
    /\ ~Done => result = NoResult
    /\ Done => \/ IsSuccess(result) /\ ~IsFailure(result)
               \/ IsFailure(result) /\ ~IsSuccess(result)

C4_Witness ==
    /\ Done
    /\ resizedFace # <<>>
    /\ Failed("readFile")
    /\ IsFailure(result)

\* The message a failed download is reported with
FetchFailureMessage ==
    IF net.kind = "status"
    THEN "Failed to download image: " \o net.statusText
    ELSE net.message

(***************************************************************************)
(* C5: if the fetch of the source image throws or answers a non-OK         *)
(* response, the call returns a failure result whose message is that of    *)
(* the fetch failure, and the failed download is the last step of the      *)
(* call: no resize, no template read, no composite, no fallback encoding.  *)
(***************************************************************************)
C5_DownloadFailureFailsFast ==
    (Done /\ Performed("fetch") /\ net.kind # "ok")
        => /\ IsFailure(result)
           /\ result.error = FetchFailureMessage
           /\ ops[Len(ops)].op = "fetch"
           /\ ~Performed("resize")
           /\ ~Performed("readFile")
           /\ ~Performed("composite")
           /\ finalBuffer = <<>>

C5_Witness ==
    /\ Done
    /\ Performed("fetch")
    /\ net.kind = "status"
    /\ net.statusText = "Not Found"
    /\ templateExists
    /\ result = [base64Image |-> "", error |-> "Failed to download image: Not Found"]

(***************************************************************************)
(* C6: on the fallback path the bytes carried in the payload are PNG       *)
(* encoded, for every source format the codec decodes (JPEG, PNG, WebP).   *)
(***************************************************************************)
C6_FallbackPayloadIsPng ==
    (Done /\ IsSuccess(result) /\ ~Performed("composite"))
        => /\ result.base64Image = Prefix \o Base64(finalBuffer)
           /\ SniffFormat(finalBuffer) = "png"

(***************************************************************************)
(* C7: whatever makes the existence check fail (file missing, permission   *)
(* denied, I/O error), templateExists is false and the call goes on along  *)
(* the fallback path: it downloads the source, reads no template, overlays *)
(* nothing, and the error of the existence check is not in the result.     *)
(***************************************************************************)
C7_ExistenceCheckFailureIsFallback ==
    Failed("access")
        => /\ ~templateExists
           /\ accessErr # None
           /\ ~Performed("readFile")
           /\ ~Performed("composite")
           /\ Done => /\ Performed("fetch")
                      /\ "error" \in DOMAIN result => result.error # accessErr.message

C7_Witness ==
    /\ Done
    /\ \E i \in Steps("access") : ops[i].status = "ioError"
    /\ IsSuccess(result)

(***************************************************************************)
(* C8: a template file that cannot be read is never fatal: whenever the    *)
(* read of the template file fails - the file was there at the existence   *)
(* check and was removed or made unreadable before the read - the call     *)
(* takes the fallback path and returns success.                            *)
(***************************************************************************)
C8_UnreadableTemplateFallsBack ==
    (Done /\ Failed("readFile")) => IsSuccess(result)

(***************************************************************************)
(* C9: when the registry has no entry for templateName the call fails at   *)
(* once: no existence check, no fetch and no image operation is performed. *)
(***************************************************************************)
C9_NoEntryFailsImmediately ==
    (templateName # "" /\ templateName \notin RegisteredKeys)
        => /\ \A i \in DOMAIN ops : ops[i].op = "lookup"
           /\ Done => IsFailure(result)

(***************************************************************************)
(* C10: a call fetches the source image at most once and resizes at most   *)
(* once; it never retries: after a failed download or a failed resize the  *)
(* call has returned a failure result with exactly one fetch made.         *)
(***************************************************************************)
C10_SingleFetchNoRetry ==
    /\ Cardinality(Steps("fetch")) <= 1
    /\ Cardinality(Steps("resize")) <= 1
    /\ (Failed("fetch") \/ Failed("resize"))
           => /\ Done
              /\ IsFailure(result)
              /\ Cardinality(Steps("fetch")) = 1

C10_Witness ==
    /\ Done
    /\ Failed("fetch")
    /\ Cardinality(Steps("fetch")) = 1
    /\ IsFailure(result)

\* The buffer the last image operation of a successful call produced
LastImageBuffer ==
    IF Performed("composite")
    THEN SharpComposite(templateBuffer, resizedFace,
                        TEMPLATES[templateName].facePosition.y,
                        TEMPLATES[templateName].facePosition.x).value
    ELSE SharpResize(aiImageBuffer, 1024, 1024, "cover").value

(***************************************************************************)
(* C12: every success result, on the fallback path and on the composite    *)
(* path alike, carries a payload of the exact shape                        *)
(* 'data:image/png;base64,' followed by the base64 text of the final byte  *)
(* buffer (4 characters for every 3 bytes, padded; RFC 4648 test vectors   *)
(* fix the encoding).                                                      *)
(***************************************************************************)
C12_PayloadIsPngDataUri ==
    /\ Base64(<<77, 97, 110>>) = "TWFu"
    /\ Base64(<<77, 97>>) = "TWE="
    /\ Base64(<<77>>) = "TQ=="
    /\ Base64(<<251, 255, 190>>) = "+/++"
    /\ (Done /\ IsSuccess(result))
           => /\ finalBuffer = LastImageBuffer
              /\ result.base64Image = "data:image/png;base64," \o Base64(finalBuffer)
              /\ Len(result.base64Image) = 22 + 4 * ((Len(finalBuffer) + 2) \div 3)

C12_Witness ==
    /\ Done
    /\ Performed("composite")
    /\ result = [base64Image |->
                    "data:image/png;base64,iVBORwQABAAIAAAAAAQABAABLACWAZABkAIAAAAAAgACAA=="]

(***************************************************************************)
(* C13: within one call the existence check completes before the download  *)
(* starts, the download completes before any resize, and the resize target *)
(* is fixed by templateExists, which the existence check set before the    *)
(* resize runs: facePosition.width x facePosition.height when it is true,  *)
(* 1024 x 1024 when it is false.                                           *)
(***************************************************************************)
C13_CheckThenDownloadThenResize ==
    /\ \A i \in Steps("fetch") : \E j \in Steps("access") : j < i
    /\ \A i \in Steps("resize") :
          /\ \E k \in Steps("fetch") : k < i /\ ops[k].ok
          /\ \E j \in Steps("access") : j < i /\ ops[j].ok = templateExists
          /\ IF templateExists
             THEN /\ ops[i].width = TEMPLATES[templateName].facePosition.width
                  /\ ops[i].height = TEMPLATES[templateName].facePosition.height
             ELSE ops[i].width = 1024 /\ ops[i].height = 1024

C13_Witness ==
    /\ Done
    /\ templateExists
    /\ Len(ops) >= 4
    /\ ops[2].op = "access"
    /\ ops[3].op = "fetch"
    /\ ops[4] = [op |-> "resize", width |-> 500, height |-> 500, ok |-> TRUE]

\* Coordinates at and next to the edges of the interval [lo, lo + len) of 0..max-1
Probes(lo, len, max) ==
    {0, lo - 1, lo, lo + len - 1, lo + len, max - 1} \cap (0..(max - 1))

(***************************************************************************)
(* C14: on the composite path the output image has exactly the template's  *)
(* width and height, the face rectangle lies with its top-left corner at   *)
(* (facePosition.x, facePosition.y), and every pixel outside               *)
(* [x, x+width) x [y, y+height) is the template's pixel at that position   *)
(* (checked at the corners of the image and on both sides of every edge of *)
(* the rectangle).                                                         *)
(***************************************************************************)
C14_CompositeKeepsTemplateOutsideSlot ==
    (Done /\ IsSuccess(result) /\ Performed("composite")) =>
        LET out  == DecodeImage(finalBuffer)
            tpl  == DecodeImage(templateBuffer)
            face == DecodeImage(resizedFace)
            slot == TEMPLATES[templateName].facePosition
        IN
        /\ SniffFormat(finalBuffer) = "png"
        /\ out.width = tpl.width
        /\ out.height = tpl.height
        /\ \A px \in Probes(slot.x, slot.width, out.width) :
              \A py \in Probes(slot.y, slot.height, out.height) :
                 IF /\ px >= slot.x /\ px < slot.x + slot.width
                    /\ py >= slot.y /\ py < slot.y + slot.height
                 THEN PixelAt(out, px, py) = PixelAt(face, px - slot.x, py - slot.y)
                 ELSE PixelAt(out, px, py) = PixelAt(tpl, px, py)

C14_Witness ==
    /\ Done
    /\ IsSuccess(result)
    /\ Performed("composite")
    /\ DecodeImage(finalBuffer).width = 2048
    /\ DecodeImage(finalBuffer).height = 1536
    /\ templateName = "template2"
    /\ PixelAt(DecodeImage(finalBuffer), 250, 100) = <<1, 500, 0>>
    /\ PixelAt(DecodeImage(finalBuffer), 249, 100) = <<10, 249, 100>>

\* Every pixel of the decoded picture `out` shows a pixel of the picture `src`
ShowsOnly(out, src) ==
    /\ out.crop[3] > 0
    /\ out.crop[4] > 0
    /\ out.crop[1] >= 0
    /\ out.crop[2] >= 0
    /\ out.crop[1] + out.crop[3] <= src.width
    /\ out.crop[2] + out.crop[4] <= src.height
    /\ \A px \in {0, out.width - 1} : \A py \in {0, out.height - 1} :
          /\ LayerPixel(out, px, py)[1] = src.content
          /\ LayerPixel(out, px, py)[2] \in 0..(src.width - 1)
          /\ LayerPixel(out, px, py)[3] \in 0..(src.height - 1)

(***************************************************************************)
(* C15: on the fallback path the image of a success result is exactly      *)
(* 1024 x 1024 pixels for every source width and height (wide, tall,       *)
(* square, larger or smaller than 1024), and every pixel of it shows a     *)
(* pixel of the source: there is no letterboxing.                          *)
(***************************************************************************)
C15_FallbackIsCanonicalSquare ==
    (Done /\ IsSuccess(result) /\ ~Performed("composite")) =>
        /\ DecodeImage(finalBuffer).width = 1024
        /\ DecodeImage(finalBuffer).height = 1024
        /\ DecodeImage(finalBuffer).overlay = <<>>
        /\ ShowsOnly(DecodeImage(finalBuffer), DecodeImage(net.body))

C15_Witness ==
    /\ Done
    /\ IsSuccess(result)
    /\ ~Performed("composite")
    /\ DecodeImage(net.body).width = 200
    /\ DecodeImage(net.body).height = 300
    /\ DecodeImage(finalBuffer).width = 1024
    /\ DecodeImage(finalBuffer).height = 1024

\* The picture a successful resize of the call produced
ResizedPicture ==
    IF templateExists THEN DecodeImage(resizedFace) ELSE DecodeImage(finalBuffer)

\* `out` is the cover/center fit of `src`: it shows a region of src that has
\* the shape of out (to within one pixel of rounding), spans src in one
\* direction, and leaves equal margins (to within one pixel) in the other.
IsCoverCenterFit(out, src) ==
    /\ ShowsOnly(out, src)
    /\ out.crop[3] = src.width \/ out.crop[4] = src.height
    /\ out.crop[3] * out.height - out.crop[4] * out.width
           \in (1 - out.width - out.height)..(out.width + out.height - 1)
    /\ src.width - out.crop[3] - 2 * out.crop[1] \in {0, 1}
    /\ src.height - out.crop[4] - 2 * out.crop[2] \in {0, 1}

(***************************************************************************)
(* C16: the resize of both paths is the cover/center fit: the picture has  *)
(* exactly the target size and shows a region of the source of the         *)
(* target's shape, taken from the centre, that spans the source in one     *)
(* direction - no padding, no distortion; a 2000x1000 source resized to    *)
(* 400x400 shows exactly the centred 1000x1000 square of the source.       *)
(***************************************************************************)
C16_ResizeIsCoverCenter ==
    \A i \in Steps("resize") : ops[i].ok =>
        /\ ResizedPicture.width = ops[i].width
        /\ ResizedPicture.height = ops[i].height
        /\ IsCoverCenterFit(ResizedPicture, DecodeImage(aiImageBuffer))
        /\ (/\ DecodeImage(aiImageBuffer).width = 2000
            /\ DecodeImage(aiImageBuffer).height = 1000
            /\ ops[i].width = 400
            /\ ops[i].height = 400)
               => ResizedPicture.crop = <<500, 0, 1000, 1000>>

C16_Witness ==
    /\ pc = "read"
    /\ DecodeImage(aiImageBuffer).width = 2000
    /\ DecodeImage(aiImageBuffer).height = 1000
    /\ DecodeImage(resizedFace).width = 400
    /\ DecodeImage(resizedFace).height = 400
    /\ DecodeImage(resizedFace).crop = <<500, 0, 1000, 1000>>

\* The single call is not running
SingleIdle ==
    /\ options = [aiGeneratedImageUrl |-> Url]
    /\ pc = "idle"
    /\ templateName = ""
    /\ templateConfig = Undefined
    /\ templatePath = ""
    /\ templateExists = FALSE
    /\ accessErr = None
    /\ aiImageBuffer = <<>>
    /\ resizedFace = <<>>
    /\ templateBuffer = <<>>
    /\ finalBuffer = <<>>
    /\ result = NoResult
    /\ ops = <<>>
    /\ fsChanges = 0

single == <<options, pc, templateName, templateConfig, templatePath,
            templateExists, accessErr, aiImageBuffer, resizedFace,
            templateBuffer, finalBuffer, result, ops, fsChanges>>

(***************************************************************************)
(* POST /api/personalize                                                   *)
(***************************************************************************)
MAX_FILE_SIZE == 10 * 1024 * 1024

ALLOWED_TYPES == <<"image/jpeg", "image/png", "image/jpg", "image/webp">>

\* Array.prototype.join
RECURSIVE Join(_, _)
Join(array, separator) ==
    IF array = <<>> THEN ""
    ELSE IF Len(array) = 1 THEN array[1]
    ELSE array[1] \o separator \o Join(Tail(array), separator)

\* Array.prototype.includes
Includes(array, v) == \E i \in DOMAIN array : array[i] = v

\* What formData.get(name) gives: null, the text of a field, or a File
Null == [kind |-> "null"]

Text(value) == [kind |-> "text", value |-> value]

FileOf(type, size) == [kind |-> "file", type |-> type, size |-> size]

\* JavaScript truthiness of a form value: null and '' are falsy
HasValue(v) == v.kind = "file" \/ (v.kind = "text" /\ v.value # "")

\* ALLOWED_TYPES.includes(file.type); a text value has no type
TypeAllowed(v) == v.kind = "file" /\ Includes(ALLOWED_TYPES, v.type)

FileTypes ==
    {"image/jpeg", "image/png", "image/jpg", "image/webp", "image/gif",
     "text/plain", ""}

FileSizes == {0, MAX_FILE_SIZE - 1, MAX_FILE_SIZE, MAX_FILE_SIZE + 1}

ImageFields ==
    {Null, Text(""), Text("photo")}
        \cup {FileOf(t, s) : t \in FileTypes, s \in FileSizes}

TemplateFields ==
    {Null, Text(""), Text("template1"), Text("template2"), Text("does-not-exist")}

\* A body request.formData() rejects (one whose content type is not that of a
\* form, or a multipart body that is malformed), or the fields of the form
Requests ==
    {[parsed |-> FALSE, body |-> b] : b \in {"notForm", "malformed"}}
        \cup {[parsed |-> TRUE, image |-> i, template |-> t] :
                 i \in ImageFields, t \in TemplateFields}

\* What replicate.run resolves to, or the Error or other value it rejects with
AiOutputs ==
    { [kind |-> "string", value |-> Url],
      [kind |-> "array", value |-> <<Url>>],
      [kind |-> "array", value |-> <<"">>],
      [kind |-> "array", value |-> <<>>],
      [kind |-> "null"],
      [kind |-> "throw", message |-> "Prediction failed"],
      [kind |-> "throwValue"] }

PostStatus == {"good", "absent", "unreadable"}

NodeEnvs == {"development", "production"}

\* new TypeError(message)
TypeError(message) == [isError |-> TRUE, name |-> "TypeError", message |-> message]

\* error.name
ErrorName(error) == IF "name" \in DOMAIN error THEN error.name ELSE "Error"

\* error.stack: the name, then the message when it is not empty, then the
\* frames
StackOf(error) ==
    (IF error.message = "" THEN ErrorName(error)
     ELSE ErrorName(error) \o ": " \o error.message) \o "\n    at <frames>"

\* A thrown value that is no Error: a string, or a plain object
ThrownString(value) == [isError |-> FALSE, kind |-> "string", value |-> value]

ThrownObject == [isError |-> FALSE, kind |-> "object"]

\* String(error) of such a value
StringOf(thrown) ==
    IF thrown.kind = "string" THEN thrown.value ELSE "[object Object]"

\* What request.formData() rejects with
FormDataError(req) ==
    IF req.body = "notForm"
    THEN TypeError("Content-Type was not one of \"multipart/form-data\" or \"application/x-www-form-urlencoded\".")
    ELSE TypeError("Failed to parse body as FormData.")

PostNet ==
    { [kind |-> "ok", body |-> EncodeImage("jpeg", Picture(2000, 1000, 1))],
      [kind |-> "status", statusText |-> "Not Found"] }

\* Faulty variant: an empty array is not refused, output[0] is handed on.
PersonalizeImageNoEmptyCheck(output) ==
    CASE output.kind = "throw" ->
            [imageUrl |-> "", error |-> output.message]
      [] output.kind = "throwValue" ->
            [imageUrl |-> "", error |-> "Unknown error occurred"]
      [] output.kind = "null" \/ (output.kind = "string" /\ output.value = "") ->
            [imageUrl |-> "", error |-> "No output received from AI model"]
      [] output.kind = "array" ->
            [imageUrl |-> IF output.value = <<>> THEN "" ELSE output.value[1]]
      [] OTHER -> [imageUrl |-> output.value]

\* AIService.personalizeImage
PersonalizeImage(output) ==
    CASE output.kind = "throw" ->
            [imageUrl |-> "", error |-> output.message]
      [] output.kind = "throwValue" ->
            [imageUrl |-> "", error |-> "Unknown error occurred"]
      [] output.kind = "null" \/ (output.kind = "string" /\ output.value = "")
            \/ (output.kind = "array" /\ output.value = <<>>) ->
            [imageUrl |-> "", error |-> "No output received from AI model"]
      [] output.kind = "array" -> [imageUrl |-> output.value[1]]
      [] OTHER -> [imageUrl |-> output.value]

\* result.error || fallback
ErrorOr(r, fallback) ==
    IF "error" \in DOMAIN r /\ r.error # "" THEN r.error ELSE fallback

\* templateName || 'template1'
RouteTemplateName(field) == IF HasValue(field) THEN field.value ELSE "template1"

\* NextResponse.json(body, { status })
Respond(status, body) ==
    /\ response' = [status |-> status, body |-> body]
    /\ postPc' = "responded"

\* Faulty variant: the handler has no catch, the exception leaves it.
PostCatchRethrows(error) ==
    /\ postPc' = "escaped"
    /\ response' = response

\* catch (error) of POST: 500 with the message of the error, and in
\* development with details; a details that is undefined is left out of the
\* JSON text
PostCatch(error) ==
    LET errorMessage == IF error.isError THEN error.message
                        ELSE "Internal server error"
    IN  Respond(500, IF nodeEnv = "development"
                     THEN [error   |-> errorMessage,
                           details |-> IF error.isError THEN StackOf(error)
                                       ELSE StringOf(error)]
                     ELSE [error |-> errorMessage])

InitPost ==
    /\ SingleIdle
    /\ ListIdle
    /\ PageIdle
    /\ calls = <<>>
    /\ request \in Requests
    /\ token \in BOOLEAN
    /\ nodeEnv \in NodeEnvs
    /\ aiOutput \in AiOutputs
    /\ postPc = "received"
    /\ composeArg = None
    /\ postOps = <<>>
    /\ response = NoResult
    /\ \E status \in PostStatus :
          files = [f \in FileNames |->
                      IF request.parsed
                         /\ f = TemplateFile(RouteTemplateName(request.template))
                      THEN status ELSE "absent"]
    /\ net \in PostNet

\* Faulty variant: a file of exactly MAX_FILE_SIZE bytes is refused.
PostParseSizeInclusive ==
    /\ postPc = "received"
    /\ IF ~request.parsed
       THEN PostCatch(FormDataError(request))
       ELSE LET file == request.image IN
            IF ~HasValue(file)
            THEN Respond(400, [error |-> "No image file provided"])
            ELSE IF ~TypeAllowed(file)
            THEN Respond(400, [error |-> "Invalid file type. Allowed types: "
                                            \o Join(ALLOWED_TYPES, ", ")])
            ELSE IF file.size >= MAX_FILE_SIZE
            THEN Respond(400, [error |-> "File too large. Maximum size: "
                                            \o ToString((MAX_FILE_SIZE \div 1024) \div 1024)
                                            \o "MB"])
            ELSE postPc' = "buffer" /\ response' = response
    /\ UNCHANGED <<request, token, nodeEnv, aiOutput, composeArg, postOps>>
    /\ UNCHANGED <<files, net, calls, single, lister, page>>

\* request.formData() and the three validations, up to the call of
\* file.arrayBuffer() the handler then waits for
PostParse ==
    /\ postPc = "received"
    /\ IF ~request.parsed
       THEN PostCatch(FormDataError(request))
       ELSE LET file == request.image IN
            IF ~HasValue(file)
            THEN Respond(400, [error |-> "No image file provided"])
            ELSE IF ~TypeAllowed(file)
            THEN Respond(400, [error |-> "Invalid file type. Allowed types: "
                                            \o Join(ALLOWED_TYPES, ", ")])
            ELSE IF file.size > MAX_FILE_SIZE
            THEN Respond(400, [error |-> "File too large. Maximum size: "
                                            \o ToString((MAX_FILE_SIZE \div 1024) \div 1024)
                                            \o "MB"])
            ELSE postPc' = "buffer" /\ response' = response
    /\ UNCHANGED <<request, token, nodeEnv, aiOutput, composeArg, postOps>>
    /\ UNCHANGED <<files, net, calls, single, lister, page>>

\* await file.arrayBuffer() resolves: createAIService(), which reads
\* REPLICATE_API_TOKEN, then aiService.personalizeImage(...) up to its
\* await this.replicate.run(...)
PostBuffer ==
    /\ postPc = "buffer"
    /\ IF ~token
       THEN PostCatch(Error("REPLICATE_API_TOKEN environment variable is not set. "
                            \o "Please add it to your .env.local file. "
                            \o "Get your token from: https://replicate.com/account/api-tokens"))
       ELSE postPc' = "ai" /\ response' = response
    /\ postOps' = postOps \o (IF token THEN <<"createAIService", "replicate.run">>
                                       ELSE <<"createAIService">>)
    /\ UNCHANGED <<request, token, nodeEnv, aiOutput, composeArg>>
    /\ UNCHANGED <<files, net, calls, single, lister, page>>

\* Another callback sets or removes REPLICATE_API_TOKEN in process.env while
\* the handler is suspended at await file.arrayBuffer(); the handler reads
\* the variable once, in createAIService
PostEnvChange ==
    /\ postPc = "buffer"
    /\ token' = ~token
    /\ UNCHANGED <<request, nodeEnv, aiOutput, postPc, composeArg, postOps, response>>
    /\ UNCHANGED <<files, net, calls, single, lister, page>>

\* Faulty variant: only aiResult.error is tested, an empty imageUrl goes on to
\* the compositor.
PostPersonalizeIgnoresEmptyUrl ==
    /\ postPc = "ai"
    /\ LET aiResult == PersonalizeImage(aiOutput) IN
       IF ErrorOr(aiResult, "") # ""
       THEN Respond(500, [error |-> ErrorOr(aiResult,
                                      "Failed to generate personalized image")])
       ELSE postPc' = "composite" /\ response' = response
    /\ UNCHANGED <<request, token, nodeEnv, aiOutput, composeArg, postOps>>
    /\ UNCHANGED <<files, net, calls, single, lister, page>>

\* await this.replicate.run(...) settles: personalizeImage returns aiResult
\* and the handler tests it
PostPersonalize ==
    /\ postPc = "ai"
    /\ LET aiResult == PersonalizeImage(aiOutput) IN
       IF ErrorOr(aiResult, "") # "" \/ aiResult.imageUrl = ""
       THEN Respond(500, [error |-> ErrorOr(aiResult,
                                      "Failed to generate personalized image")])
       ELSE postPc' = "composite" /\ response' = response
    /\ UNCHANGED <<request, token, nodeEnv, aiOutput, composeArg, postOps>>
    /\ UNCHANGED <<files, net, calls, single, lister, page>>

\* compositor.compositeOnTemplate({...}): the call is entered
PostComposite ==
    /\ postPc = "composite"
    /\ composeArg' = [aiGeneratedImageUrl |-> PersonalizeImage(aiOutput).imageUrl,
                      templateName |-> RouteTemplateName(request.template)]
    /\ calls' = <<InitLocal(composeArg')>>
    /\ postOps' = Append(postOps, "compositeOnTemplate")
    /\ postPc' = "compositing"
    /\ UNCHANGED <<request, token, nodeEnv, aiOutput, response>>
    /\ UNCHANGED <<files, net, single, lister, page>>

\* One awaited step of the call of compositeOnTemplate the handler waits for
PostCompositorStep ==
    /\ postPc = "compositing"
    /\ calls[1].pc # "done"
    /\ calls' = [calls EXCEPT ![1] = CallNext(calls[1])]
    /\ UNCHANGED <<files, net, single, post, lister, page>>

\* Another process creates, removes or re-protects the template file while
\* the call of compositeOnTemplate is suspended at an await.
PostFsChange ==
    /\ postPc = "compositing"
    /\ calls[1].pc \in {"access", "fetch", "body", "resize", "read", "composite"}
    /\ fsChanges < MaxFsChanges
    /\ \E status \in PostStatus \ {files[calls[1].templatePath]} :
          files' = [files EXCEPT ![calls[1].templatePath] = status]
    /\ fsChanges' = fsChanges + 1
    /\ UNCHANGED <<options, pc, templateName, templateConfig, templatePath,
                   templateExists, accessErr, aiImageBuffer, resizedFace,
                   templateBuffer, finalBuffer, result, ops>>
    /\ UNCHANGED <<net, calls, post, lister, page>>

\* Faulty variant: the result of the compositor is not tested, its payload is
\* sent as a success whatever it is.
PostFinishUntested ==
    /\ postPc = "compositing"
    /\ calls[1].pc = "done"
    /\ LET compositeResult == calls[1].result IN
       Respond(200, [success |-> TRUE,
                     image |-> compositeResult.base64Image,
                     message |-> "Image personalized successfully"])
    /\ UNCHANGED <<request, token, nodeEnv, aiOutput, composeArg, postOps>>
    /\ UNCHANGED <<files, net, calls, single, lister, page>>

\* The call of compositeOnTemplate has returned: the response built from its
\* result
PostFinish ==
    /\ postPc = "compositing"
    /\ calls[1].pc = "done"
    /\ LET compositeResult == calls[1].result IN
       IF ErrorOr(compositeResult, "") # "" \/ compositeResult.base64Image = ""
       THEN Respond(500, [error |-> ErrorOr(compositeResult,
                                      "Failed to composite image")])
       ELSE Respond(200, [success |-> TRUE,
                          image |-> compositeResult.base64Image,
                          message |-> "Image personalized successfully"])
    /\ UNCHANGED <<request, token, nodeEnv, aiOutput, composeArg, postOps>>
    /\ UNCHANGED <<files, net, calls, single, lister, page>>

NextPost ==
    \/ PostParse
    \/ PostBuffer
    \/ PostEnvChange
    \/ PostPersonalize
    \/ PostComposite
    \/ PostCompositorStep
    \/ PostFsChange
    \/ PostFinish

SpecPost == InitPost /\ [][NextPost]_vars

\* Vocabulary of the properties of the POST handler
Responded == postPc = "responded"

ValidationPassed ==
    /\ request.parsed
    /\ request.image.kind = "file"
    /\ request.image.type \in {"image/jpeg", "image/png", "image/jpg", "image/webp"}
    /\ request.image.size <= 10 * 1024 * 1024

AiResult == PersonalizeImage(aiOutput)

AiSucceeded == "error" \notin DOMAIN AiResult /\ AiResult.imageUrl # ""

\* The locals of the call of compositeOnTemplate the handler made
CompositorRun == calls[1]

CompositorSucceeded ==
    /\ calls # <<>>
    /\ CompositorRun.pc = "done"
    /\ "error" \notin DOMAIN CompositorRun.result
    /\ CompositorRun.result.base64Image # ""

Called(collaborator) == Includes(postOps, collaborator)

TokenMessage ==
    "REPLICATE_API_TOKEN environment variable is not set. Please add it to your .env.local file. Get your token from: https://replicate.com/account/api-tokens"

Is500(message) == response.status = 500 /\ response.body.error = message

\* C11: a call of compositeOnTemplate with templateName absent or '' goes
\* through the same registry entry and the same file template1.png as a call
\* with templateName 'template1' and returns the same result; and the POST
\* handler passes 'template1' when the 'template' field is missing or empty.
C11_AbsentOrEmptyNameIsTemplate1 ==
    /\ \A o \in {[aiGeneratedImageUrl |-> Url],
                 [aiGeneratedImageUrl |-> Url, templateName |-> ""]} :
          LET a == RunFrom(InitLocal(o))
              b == RunFrom(InitLocal([aiGeneratedImageUrl |-> Url,
                                      templateName |-> "template1"]))
          IN  /\ a.templateConfig = TEMPLATES.template1
              /\ a.templatePath = "template1.png"
              /\ [a EXCEPT !.options = b.options] = b
    /\ (composeArg # None /\ request.template \in {Null, Text("")})
          => composeArg.templateName = "template1"

\* C11 witness: a request without a usable 'template' field was answered 200
\* with the image a call without templateName returns, composed on template1.
C11_Witness ==
    /\ postPc = "responded"
    /\ response.status = 200
    /\ request.template \in {Null, Text("")}
    /\ composeArg.templateName = "template1"
    /\ files["template1.png"] = "good"
    /\ response.body.image = CompositeOnTemplate([aiGeneratedImageUrl |-> Url]).base64Image

\* C20: the handler answers 400 exactly when a validation fails, with the
\* message of the first failing check: the 'image' field is missing, else the
\* file's type is not an allowed one, else the file is larger than
\* 10*1024*1024 bytes; a file of an allowed type of exactly that size passes.
C20_ValidationAnswers400 ==
    (postPc # "received" /\ request.parsed /\ request.image.kind \in {"null", "file"})
        => LET file     == request.image
               missing  == file.kind = "null"
               badType  == ~missing /\ file.type \notin {"image/jpeg", "image/png",
                                                         "image/jpg", "image/webp"}
               tooLarge == ~missing /\ ~badType /\ file.size > 10 * 1024 * 1024
               Is400(message) ==
                   /\ postPc = "responded"
                   /\ response.status = 400
                   /\ response.body = [error |-> message]
           IN  /\ missing => Is400("No image file provided")
               /\ badType => Is400("Invalid file type. Allowed types: image/jpeg, image/png, image/jpg, image/webp")
               /\ tooLarge => Is400("File too large. Maximum size: 10MB")
               /\ ~(missing \/ badType \/ tooLarge)
                     => (postPc # "responded" \/ response.status # 400)

\* C20 witness: a PNG of exactly 10*1024*1024 bytes passed the validation and
\* the request was answered 200.
C20_Witness ==
    /\ postPc = "responded"
    /\ request.parsed
    /\ request.image = FileOf("image/png", 10 * 1024 * 1024)
    /\ response.status = 200

(***************************************************************************)
(* getAvailableTemplates                                                   *)
(*                                                                         *)
(* File names are sequences of characters, so that endsWith and replace    *)
(* work on them as they do on JavaScript strings.                          *)
(***************************************************************************)
MaxEntries == 3

PngExt == <<".", "p", "n", "g">>

\* String.prototype.endsWith
EndsWith(s, suffix) ==
    /\ Len(s) >= Len(suffix)
    /\ SubSeq(s, Len(s) - Len(suffix) + 1, Len(s)) = suffix

\* String.prototype.replace(pattern, replacement) with a string pattern:
\* only the first occurrence is replaced
ReplaceFirst(s, pattern, replacement) ==
    LET at == {i \in 1..(Len(s) - Len(pattern) + 1) :
                  SubSeq(s, i, i + Len(pattern) - 1) = pattern}
    IN  IF at = {} THEN s
        ELSE LET i == CHOOSE k \in at : \A j \in at : k <= j
             IN  SubSeq(s, 1, i - 1) \o replacement
                     \o SubSeq(s, i + Len(pattern), Len(s))

\* Names a directory entry can have: template1.png, template2.png,
\* README.md, .png, photo.png.old.png, cover.PNG, draft.png.bak
EntryNames ==
    { <<"t", "e", "m", "p", "l", "a", "t", "e", "1", ".", "p", "n", "g">>,
      <<"t", "e", "m", "p", "l", "a", "t", "e", "2", ".", "p", "n", "g">>,
      <<"R", "E", "A", "D", "M", "E", ".", "m", "d">>,
      <<".", "p", "n", "g">>,
      <<"p", "h", "o", "t", "o", ".", "p", "n", "g", ".", "o", "l", "d", ".", "p", "n", "g">>,
      <<"c", "o", "v", "e", "r", ".", "P", "N", "G">>,
      <<"d", "r", "a", "f", "t", ".", "p", "n", "g", ".", "b", "a", "k">> }

\* The directory cannot be read, or it lists distinct entries in some order
Directories ==
    {[readable |-> FALSE]}
        \cup {[readable |-> TRUE, entries |-> e] :
                 e \in {s \in UNION {[1..n -> EntryNames] : n \in 0..MaxEntries} :
                           \A i, j \in DOMAIN s : i # j => s[i] # s[j]}}

InitList ==
    /\ SingleIdle
    /\ PostIdle
    /\ PageIdle
    /\ calls = <<>>
    /\ files = [f \in FileNames |-> "absent"]
    /\ net = [kind |-> "status", statusText |-> "Not Found"]
    /\ dir \in Directories
    /\ listed = NoResult

\* fs.readdir, then filter by endsWith('.png'), then map by replace('.png', '')
GetAvailableTemplates ==
    /\ listed = NoResult
    /\ listed' =
          IF ~dir.readable THEN [returned |-> <<>>]
          ELSE LET pngs == SelectSeq(dir.entries, LAMBDA file : EndsWith(file, PngExt))
               IN  [returned |-> [i \in DOMAIN pngs |-> ReplaceFirst(pngs[i], PngExt, <<>>)]]
    /\ UNCHANGED dir
    /\ UNCHANGED <<files, net, calls, single, post, page>>

NextList == GetAvailableTemplates

SpecList == InitList /\ [][NextList]_vars

\* C19: getAvailableTemplates returns the empty sequence when the directory
\* cannot be read, and otherwise exactly the names, with the extension .png
\* removed, of the entries that end in .png; for each returned name the
\* asset <name>.png is in the directory.
C19_ListsNamesOfPngAssets ==
    listed # NoResult =>
        IF ~dir.readable THEN listed.returned = <<>>
        ELSE LET pngs == SelectSeq(dir.entries, LAMBDA file : EndsWith(file, PngExt))
             IN  /\ listed.returned =
                        [i \in DOMAIN pngs |-> SubSeq(pngs[i], 1, Len(pngs[i]) - Len(PngExt))]
                 /\ \A i \in DOMAIN listed.returned :
                        \E j \in DOMAIN dir.entries :
                            dir.entries[j] = listed.returned[i] \o PngExt

\* C21: the handler answers 200 with success = true exactly when the
\* validation passed, the AI service returned a non-empty imageUrl with no
\* error and the compositor returned a non-empty payload with no error; the
\* 'image' of that response is the compositor's payload, which starts with
\* data:image/png;base64, ; and no response with an 'error' carries an 'image'.
C21_SuccessIffEveryStageSucceeded ==
    Responded =>
        /\ (response.status = 200)
              <=> (ValidationPassed /\ token /\ AiSucceeded /\ CompositorSucceeded)
        /\ response.status = 200 =>
              /\ response.body.success = TRUE
              /\ response.body.image = CompositorRun.result.base64Image
              /\ response.body.image = Prefix \o Base64(CompositorRun.finalBuffer)
              /\ Prefix = "data:image/png;base64,"
        /\ "error" \in DOMAIN response.body => "image" \notin DOMAIN response.body

\* C21 witness: a valid request, answered 200 with the composite as image.
C21_Witness ==
    /\ Responded
    /\ response.status = 200
    /\ ValidationPassed /\ token /\ AiSucceeded /\ CompositorSucceeded
    /\ response.body.image = CompositorRun.result.base64Image
    /\ CompositorRun.ops[Len(CompositorRun.ops)].op = "composite"

\* C22: no exception leaves the handler: it is always at one of its awaited
\* steps or has answered, with status 200, 400 or 500; an exception raised
\* while handling (a body that is no form, createAIService without
\* REPLICATE_API_TOKEN) gives 500 with the message of the exception, a
\* failure of the AI service or of the compositor gives 500 with the message
\* of the failure or the default one.
C22_EveryRequestIsAnswered ==
    /\ postPc \in {"received", "buffer", "ai", "composite", "compositing", "responded"}
    /\ Responded =>
               (/\ response.status \in {200, 400, 500}
                /\ ~request.parsed =>
                      Is500(IF request.body = "malformed"
                            THEN "Failed to parse body as FormData."
                            ELSE "Content-Type was not one of \"multipart/form-data\" or \"application/x-www-form-urlencoded\".")
                /\ (ValidationPassed /\ ~token) => Is500(TokenMessage)
                /\ (ValidationPassed /\ token /\ ~AiSucceeded) =>
                      Is500(IF "error" \in DOMAIN AiResult /\ AiResult.error # ""
                            THEN AiResult.error
                            ELSE "Failed to generate personalized image")
                /\ (ValidationPassed /\ token /\ AiSucceeded /\ ~CompositorSucceeded) =>
                      Is500(IF "error" \in DOMAIN CompositorRun.result
                               /\ CompositorRun.result.error # ""
                            THEN CompositorRun.result.error
                            ELSE "Failed to composite image"))

\* C22 witness: a valid request arrived while REPLICATE_API_TOKEN was not set
\* and was answered 500 with the message createAIService throws.
C22_Witness ==
    /\ Responded
    /\ ValidationPassed
    /\ ~token
    /\ Is500(TokenMessage)

\* C25: the AI service is created and called only after the three validations
\* passed, the compositor is called only after the AI service returned a
\* non-empty imageUrl with no error; a request answered 400 caused no token
\* lookup, no Replicate call and no compositor call, and an AI failure caused
\* no compositor call.
C25_StagesAreGated ==
    /\ Called("createAIService") => ValidationPassed
    /\ Called("replicate.run") => (ValidationPassed /\ token)
    /\ Called("compositeOnTemplate") =>
          (ValidationPassed /\ token /\ AiSucceeded
             /\ postOps = <<"createAIService", "replicate.run", "compositeOnTemplate">>)
    /\ (Responded /\ response.status = 400) => postOps = <<>>
    /\ (Called("replicate.run") /\ ~AiSucceeded) => ~Called("compositeOnTemplate")

\* C25 witness: the AI service answered with an empty imageUrl and no error;
\* the request was answered 500 and the compositor was not called.
C25_Witness ==
    /\ Responded
    /\ ValidationPassed
    /\ aiOutput = [kind |-> "array", value |-> <<"">>]
    /\ postOps = <<"createAIService", "replicate.run">>
    /\ composeArg = None
    /\ response.status = 500

\* C26: personalizeImage returns a PersonalizationResult for every outcome of
\* the Replicate call: imageUrl '' and an error when the call throws or the
\* output is missing or empty (then 'No output received from AI model'), the
\* first element of an array or the output itself, without error, otherwise;
\* a non-empty imageUrl never comes with an error.
C26_PersonalizeImageAlwaysReturns ==
    Called("replicate.run") =>
        LET r == PersonalizeImage(aiOutput) IN
        /\ CASE aiOutput.kind = "throw" ->
                    r = [imageUrl |-> "", error |-> aiOutput.message]
             [] aiOutput.kind = "throwValue" ->
                    DOMAIN r = {"imageUrl", "error"} /\ r.imageUrl = "" /\ r.error # ""
             [] aiOutput.kind = "null" ->
                    r = [imageUrl |-> "", error |-> "No output received from AI model"]
             [] aiOutput.kind = "array" /\ aiOutput.value = <<>> ->
                    r = [imageUrl |-> "", error |-> "No output received from AI model"]
             [] aiOutput.kind = "array" /\ aiOutput.value # <<>> ->
                    r = [imageUrl |-> aiOutput.value[1]]
             [] aiOutput.kind = "string" ->
                    r = [imageUrl |-> aiOutput.value]
        /\ ~(r.imageUrl # "" /\ "error" \in DOMAIN r)

\* C26 witness: Replicate answered an array, the handler went on to the
\* compositor with its first element as the image URL.
C26_Witness ==
    /\ Called("replicate.run")
    /\ aiOutput = [kind |-> "array", value |-> <<Url>>]
    /\ PersonalizeImage(aiOutput) = [imageUrl |-> Url]
    /\ Responded
    /\ composeArg.aiGeneratedImageUrl = Url

(***************************************************************************)
(* The upload page (Home component)                                        *)
(*                                                                         *)
(* A step is one event handler run to its end, or the arrival of the       *)
(* answer to a request sent by handleGenerate, which resumes that call     *)
(* after its awaits.                                                       *)
(***************************************************************************)
MaxRequests == 2

\* String.prototype.startsWith
StartsWith(s, prefix) ==
    Len(s) >= Len(prefix) /\ SubSeq(s, 1, Len(prefix)) = prefix

\* file.type.startsWith('image/')
StartsWithImage(type) == StartsWith(type, "image/")

\* Files the user can pick: the accept attribute of the input is a hint of
\* the file dialog, not a restriction
PageFiles ==
    { FileOf("image/png", MAX_FILE_SIZE),
      FileOf("image/gif", 1024),
      FileOf("text/plain", 1024),
      FileOf("image/jpeg", MAX_FILE_SIZE + 1) }

\* URL.createObjectURL(file)
CreateObjectURL(file) == [kind |-> "blob", of |-> file]

\* The image the server made for the request with this number
ImageOf(id) == [kind |-> "image", request |-> id]

\* useState initial value, and the value handleReset sets
EmptyState ==
    [ file         |-> Null,
      previewUrl   |-> Null,
      isProcessing |-> FALSE,
      error        |-> Null,
      resultImage  |-> Null,
      success      |-> FALSE ]

\* The messages compositeOnTemplate returns for template1, the name the page
\* sends: the download failed, the template could not be read, sharp refused
\* an image
CompositorFailures ==
    {IF outcome.kind = "status"
     THEN "Failed to download image: " \o outcome.statusText
     ELSE outcome.message : outcome \in {o \in NetOutcomes : o.kind # "ok"}}
        \cup {FsError("ENOENT: no such file or directory", "open",
                      TemplateFile("template1")).message,
              FsError("EACCES: permission denied", "open",
                      TemplateFile("template1")).message,
              "EIO: i/o error, read"}
        \cup {"Input buffer contains unsupported image format",
              "Image to composite must have same dimensions or smaller"}

\* The messages of the 500 answers of the route to a request that passed its
\* validations: createAIService threw, aiResult.error or its default,
\* compositeResult.error or its default
ServerFailures ==
    {"REPLICATE_API_TOKEN environment variable is not set. "
        \o "Please add it to your .env.local file. "
        \o "Get your token from: https://replicate.com/account/api-tokens"}
        \cup {ErrorOr(PersonalizeImage(output), "Failed to generate personalized image") :
                 output \in {o \in AiOutputs :
                                ErrorOr(PersonalizeImage(o), "") # ""
                                   \/ PersonalizeImage(o).imageUrl = ""}}
        \cup CompositorFailures
        \cup {"Failed to composite image"}

\* The answer of the catch of the route when NODE_ENV is development: the
\* body carries details
DevelopmentAnswers ==
    LET message == "REPLICATE_API_TOKEN environment variable is not set. "
                      \o "Please add it to your .env.local file. "
                      \o "Get your token from: https://replicate.com/account/api-tokens"
    IN  {[kind |-> "json", ok |-> FALSE,
          data |-> [error |-> message, details |-> StackOf(Error(message))]]}

\* What await fetch(...) rejects with when no response arrives
Rejections == {[kind |-> "reject", message |-> "Failed to fetch"]}

\* What await response.json() gives for the response to a request: the JSON
\* body of an answer of the route, with response.ok, or the rejection of a
\* body that is no JSON text
Answers(id) ==
    LET file == requests[id].file IN
    (IF ~TypeAllowed(file)
     THEN {[kind |-> "json", ok |-> FALSE,
            data |-> [error |-> "Invalid file type. Allowed types: "
                                   \o Join(ALLOWED_TYPES, ", ")]]}
     ELSE IF file.size > MAX_FILE_SIZE
     THEN {[kind |-> "json", ok |-> FALSE,
            data |-> [error |-> "File too large. Maximum size: 10MB"]]}
     ELSE {[kind |-> "json", ok |-> TRUE,
            data |-> [success |-> TRUE, image |-> ImageOf(id),
                      message |-> "Image personalized successfully"]]}
             \cup {[kind |-> "json", ok |-> FALSE, data |-> [error |-> message]] :
                      message \in ServerFailures}
             \cup DevelopmentAnswers)
        \cup {[kind |-> "reject",
               message |-> "Unexpected token '<', \"<!DOCTYPE \"... is not valid JSON"]}

\* Every answer the POST handler gives to a request of the page (a file that
\* passes the validations, template 'template1') is among the answers the
\* page is given.
AnswersCoverRoute ==
    (/\ Responded
     /\ ValidationPassed
     /\ request.template = Text("template1"))
        => \/ response.status = 200 /\ response.body.success
           \/ response.status = 500 /\ response.body.error \in ServerFailures

InitPage ==
    /\ SingleIdle
    /\ PostIdle
    /\ ListIdle
    /\ calls = <<>>
    /\ files = [f \in FileNames |-> "absent"]
    /\ net = [kind |-> "status", statusText |-> "Not Found"]
    /\ state = EmptyState
    /\ fileInput = Null
    /\ requests = <<>>

\* onChange of the file input: the dialog was closed with f chosen (Null: with
\* nothing chosen); the event fires when the input's value changes
HandleFileSelect(f) ==
    /\ state # [open |-> FALSE]
    /\ f # fileInput
    /\ fileInput' = f
    /\ state' =
          IF f = Null THEN state
          ELSE IF ~StartsWithImage(f.type)
          THEN [state EXCEPT !.error =
                   Text("Please select a valid image file (JPG, PNG, or WebP)")]
          ELSE IF f.size > 10 * 1024 * 1024
          THEN [state EXCEPT !.error = Text("File is too large. Maximum size is 10MB")]
          ELSE [ file         |-> f,
                 previewUrl   |-> CreateObjectURL(f),
                 isProcessing |-> FALSE,
                 error        |-> Null,
                 resultImage  |-> Null,
                 success      |-> FALSE ]
    /\ UNCHANGED requests
    /\ UNCHANGED <<files, net, calls, single, post, lister>>

\* Click on Clear, which is rendered while state.previewUrl is set
HandleReset ==
    /\ state # [open |-> FALSE]
    /\ state.previewUrl # Null
    /\ state' = EmptyState
    /\ fileInput' = Null
    /\ requests' = [i \in DOMAIN requests |->
                       IF requests[i].outstanding
                       THEN [requests[i] EXCEPT !.cleared = TRUE]
                       ELSE requests[i]]
    /\ UNCHANGED <<files, net, calls, single, post, lister>>

\* Click on Generate, which is disabled while !state.file || state.isProcessing:
\* handleGenerate up to its await fetch(...)
HandleGenerate ==
    /\ state # [open |-> FALSE]
    /\ state.file # Null /\ ~state.isProcessing
    /\ Len(requests) < MaxRequests
    /\ state' = [state EXCEPT !.isProcessing = TRUE, !.error = Null,
                              !.success = FALSE]
    /\ requests' = Append(requests, [file |-> state.file, outstanding |-> TRUE,
                                     responded |-> FALSE, cleared |-> FALSE])
    /\ UNCHANGED fileInput
    /\ UNCHANGED <<files, net, calls, single, post, lister>>

\* The await at which handleGenerate is suspended for request id settles
\* with answer: handleGenerate from there to its end
Arrive(id, answer) ==
    /\ id \in DOMAIN requests
    /\ requests[id].outstanding
    /\ requests' = [requests EXCEPT ![id].outstanding = FALSE]
    /\ state' =
          IF answer.kind = "json" /\ answer.ok
          THEN [state EXCEPT !.isProcessing = FALSE,
                             !.resultImage = answer.data.image,
                             !.success = TRUE]
          ELSE LET message ==
                      IF answer.kind = "reject" THEN answer.message
                      ELSE IF "error" \in DOMAIN answer.data /\ answer.data.error # ""
                      THEN answer.data.error
                      ELSE "Failed to personalize image"
               IN  [state EXCEPT !.isProcessing = FALSE, !.error = Text(message)]
    /\ UNCHANGED fileInput
    /\ UNCHANGED <<files, net, calls, single, post, lister>>

\* await fetch(...) of request id resolves with a response: handleGenerate
\* calls response.json() and waits for the body; the response is not looked
\* at before the body has arrived
ResponseReceived(id) ==
    /\ id \in DOMAIN requests
    /\ requests[id].outstanding
    /\ ~requests[id].responded
    /\ requests' = [requests EXCEPT ![id].responded = TRUE]
    /\ UNCHANGED <<state, fileInput>>
    /\ UNCHANGED <<files, net, calls, single, post, lister>>

\* await fetch(...) of request id settles: it resolves with a response or
\* rejects
FetchSettles(id) ==
    /\ id \in DOMAIN requests
    /\ ~requests[id].responded
    /\ \/ ResponseReceived(id)
       \/ \E answer \in Rejections : Arrive(id, answer)

\* await response.json() of request id settles
BodySettles(id) ==
    /\ id \in DOMAIN requests
    /\ requests[id].responded
    /\ \E answer \in Answers(id) : Arrive(id, answer)

NextPage ==
    \/ \E f \in PageFiles \cup {Null} : HandleFileSelect(f)
    \/ HandleReset
    \/ HandleGenerate
    \/ \E id \in 1..MaxRequests : FetchSettles(id)
    \/ \E id \in 1..MaxRequests : BodySettles(id)

SpecPage == InitPage /\ [][NextPage]_vars

\* The page, with every fetch resolving or rejecting at some time
SpecPageFair == SpecPage /\ \A id \in 1..MaxRequests : WF_vars(FetchSettles(id))

\* Vocabulary of the properties of the page
Outstanding == {id \in DOMAIN requests : requests[id].outstanding}

GenerateDisabled == state.file = Null \/ state.isProcessing

\* C23: a file is stored in state.file, with a preview URL, only if its type
\* is image/jpeg, image/png or image/webp and its size is at most 10MB, so
\* that the stored file, the one the page sends, passes the validation of
\* the server.
C23_StoredFileIsAcceptedByServer ==
    state.file # Null =>
        /\ state.file.type \in {"image/jpeg", "image/png", "image/webp"}
        /\ state.file.size <= 10 * 1024 * 1024
        /\ state.previewUrl = CreateObjectURL(state.file)
        /\ TypeAllowed(state.file)
        /\ state.file.size <= MAX_FILE_SIZE

\* C24: a click on Clear leaves file, previewUrl, resultImage and error null
\* and isProcessing and success false, and the answer to a request that was
\* started before a Clear is never displayed.
C24_ClearDiscardsPendingAnswer ==
    /\ [][HandleReset => state' = EmptyState]_vars
    /\ [](state.resultImage # Null
            => ~requests[state.resultImage.request].cleared)

\* C27: at most one request of the page is outstanding, and while one is
\* outstanding the Generate button is disabled.
C27_AtMostOneRequestOutstanding ==
    /\ Cardinality(Outstanding) <= 1
    /\ Outstanding # {} => GenerateDisabled

\* C28: whenever resultImage is set, a file is selected and resultImage is
\* the answer to a request that was sent with that file.
C28_ResultBelongsToSelectedFile ==
    state.resultImage # Null =>
        /\ state.file # Null
        /\ requests[state.resultImage.request].file = state.file

\* C29: success = true implies error = null and resultImage set: the success
\* alert and the error alert are never shown together.
C29_SuccessExcludesError ==
    state.success => (state.error = Null /\ state.resultImage # Null)

====
